---- MODULE Spec2Model ----
(***************************************************************************)
(* A model of src/main.py: HeaderAnalyzer.parse_headers and                *)
(* HeaderAnalyzer.send_request.                                            *)
(*                                                                         *)
(* A Python str is a sequence of Unicode code points (naturals).  A        *)
(* Python dict is a function whose DOMAIN is the dict's key set; the       *)
(* insertion order of a dict is not modelled.  A header value is either a  *)
(* Python str, modelled as the record [str |-> s], or a Python dict,       *)
(* modelled as the record [raw |-> s] or [raw |-> s, decoded |-> d].       *)
(***************************************************************************)
EXTENDS Naturals, Sequences, FiniteSets

\* ------------------------------------------------------------ characters

\* "\n"
LF == 10
\* "\r"
CR == 13
\* "%"
PCT == 37
\* ":"
COLON == 58
\* ";"
SEMI == 59
\* "="
EQ == 61
\* U+FFFD, what bytes.decode(errors="replace") puts for an invalid byte
REPLACEMENT == 65533

\* str.isspace() of one character: the Unicode whitespace str.strip() and
\* str.split() take off.
IsSpace(c) ==
    \/ c \in 9..13
    \/ c \in 28..32
    \/ c \in {133, 160, 5760, 8232, 8233, 8239, 8287, 12288}
    \/ c \in 8192..8202

\* The line boundaries of str.splitlines().
IsLineBreak(c) ==
    \/ c \in 10..13
    \/ c \in 28..30
    \/ c \in {133, 8232, 8233}

\* str.lower() and str.upper() of one character (ASCII letters; every
\* character the model's inputs are made of is ASCII).
LowerChar(c) == IF c \in 65..90 THEN c + 32 ELSE c

UpperChar(c) == IF c \in 97..122 THEN c - 32 ELSE c

\* The value of a hexadecimal digit, 16 for any other character.
HexVal(c) ==
    IF c \in 48..57 THEN c - 48
    ELSE IF c \in 65..70 THEN c - 55
    ELSE IF c \in 97..102 THEN c - 87
    ELSE 16

\* --------------------------------------------------------------- strings

Lower(s) == [i \in 1..Len(s) |-> LowerChar(s[i])]

Upper(s) == [i \in 1..Len(s) |-> UpperChar(s[i])]

\* c in s
Contains(s, c) == \E i \in 1..Len(s) : s[i] = c

\* The index of the first c in s; Len(s) + 1 when there is none.
Find(s, c) ==
    LET at == {i \in 1..Len(s) : s[i] = c}
    IN  IF at = {} THEN Len(s) + 1
        ELSE CHOOSE i \in at : \A j \in at : i <= j

\* s[i:] (1-based, inclusive)
Drop(s, i) == SubSeq(s, i, Len(s))

\* s.strip()
Strip(s) ==
    IF \A i \in 1..Len(s) : IsSpace(s[i]) THEN << >>
    ELSE SubSeq(s,
                CHOOSE i \in 1..Len(s) :
                    ~IsSpace(s[i]) /\ \A j \in 1..(i - 1) : IsSpace(s[j]),
                CHOOSE i \in 1..Len(s) :
                    ~IsSpace(s[i]) /\ \A j \in (i + 1)..Len(s) : IsSpace(s[j]))

\* s.split(c, 1): one piece when c is not in s, else the text before the
\* first c and the text after it.
SplitFirst(s, c) ==
    IF Contains(s, c)
    THEN << SubSeq(s, 1, Find(s, c) - 1), Drop(s, Find(s, c) + 1) >>
    ELSE << s >>

\* s.split(c): the pieces between the occurrences of c, empty pieces kept.
RECURSIVE Split(_, _)
Split(s, c) ==
    IF Contains(s, c)
    THEN << SubSeq(s, 1, Find(s, c) - 1) >> \o Split(Drop(s, Find(s, c) + 1), c)
    ELSE << s >>

\* s.split(): the maximal runs of non-whitespace characters.
RECURSIVE SplitWhitespace(_)
SplitWhitespace(s) ==
    LET t == Strip(s)
        ws == {i \in 1..Len(t) : IsSpace(t[i])}
        cut == IF ws = {} THEN Len(t) + 1
               ELSE CHOOSE i \in ws : \A j \in ws : i <= j
    IN  IF t = << >> THEN << >>
        ELSE << SubSeq(t, 1, cut - 1) >> \o SplitWhitespace(Drop(t, cut))

\* s.splitlines(): the lines of s without their line breaks; "\r\n" is one
\* break, and a break at the very end opens no further line.
RECURSIVE SplitLines(_)
SplitLines(s) ==
    LET brk == {i \in 1..Len(s) : IsLineBreak(s[i])}
        i == CHOOSE k \in brk : \A j \in brk : k <= j
        width == IF s[i] = CR /\ i < Len(s) /\ s[i + 1] = LF THEN 2 ELSE 1
    IN  IF s = << >> THEN << >>
        ELSE IF brk = {} THEN << s >>
        ELSE << SubSeq(s, 1, i - 1) >> \o SplitLines(Drop(s, i + width))

\* "\n".join(ls)
RECURSIVE Join(_)
Join(ls) ==
    IF ls = << >> THEN << >>
    ELSE IF Len(ls) = 1 THEN ls[1]
    ELSE ls[1] \o << LF >> \o Join(Tail(ls))

\* ------------------------------------------------ urllib.parse.unquote

\* urllib.parse.unquote_to_bytes on an ASCII string: "%" and two hex digits
\* become one byte, every other character its own byte.
RECURSIVE UnquoteToBytes(_)
UnquoteToBytes(s) ==
    IF s = << >> THEN << >>
    ELSE IF /\ s[1] = PCT
            /\ Len(s) >= 3
            /\ HexVal(s[2]) < 16
            /\ HexVal(s[3]) < 16
         THEN << 16 * HexVal(s[2]) + HexVal(s[3]) >> \o UnquoteToBytes(Drop(s, 4))
         ELSE << s[1] >> \o UnquoteToBytes(Tail(s))

\* A UTF-8 continuation byte.
IsCont(b) == b \in 128..191

\* The second bytes UTF-8 allows after the lead byte b1 of a three- or
\* four-byte sequence.
SecondByteOk(b1, b2) ==
    IF b1 = 224 THEN b2 \in 160..191
    ELSE IF b1 = 237 THEN b2 \in 128..159
    ELSE IF b1 = 240 THEN b2 \in 144..191
    ELSE IF b1 = 244 THEN b2 \in 128..143
    ELSE IsCont(b2)

\* bytes.decode("utf-8", errors="replace"): each well-formed sequence becomes
\* its code point, each maximal ill-formed prefix one U+FFFD.
RECURSIVE Utf8Decode(_)
Utf8Decode(b) ==
    LET n == Len(b)
        need == IF b[1] \in 194..223 THEN 2
                ELSE IF b[1] \in 224..239 THEN 3
                ELSE IF b[1] \in 240..244 THEN 4
                ELSE 1
        ok2 == n >= 2 /\ (IF need = 2 THEN IsCont(b[2]) ELSE SecondByteOk(b[1], b[2]))
        ok3 == ok2 /\ n >= 3 /\ IsCont(b[3])
        ok4 == ok3 /\ n >= 4 /\ IsCont(b[4])
    IN  IF n = 0 THEN << >>
        ELSE IF b[1] < 128 THEN << b[1] >> \o Utf8Decode(Tail(b))
        ELSE IF need = 1 THEN << REPLACEMENT >> \o Utf8Decode(Tail(b))
        ELSE IF need = 2 THEN
            IF ok2
            THEN << (b[1] - 192) * 64 + (b[2] - 128) >> \o Utf8Decode(Drop(b, 3))
            ELSE << REPLACEMENT >> \o Utf8Decode(Tail(b))
        ELSE IF need = 3 THEN
            IF ok3
            THEN << (b[1] - 224) * 4096 + (b[2] - 128) * 64 + (b[3] - 128) >>
                 \o Utf8Decode(Drop(b, 4))
            ELSE << REPLACEMENT >> \o Utf8Decode(Drop(b, IF ok2 THEN 3 ELSE 2))
        ELSE
            IF ok4
            THEN << (b[1] - 240) * 262144 + (b[2] - 128) * 4096
                    + (b[3] - 128) * 64 + (b[4] - 128) >>
                 \o Utf8Decode(Drop(b, 5))
            ELSE << REPLACEMENT >>
                 \o Utf8Decode(Drop(b, IF ok3 THEN 4 ELSE IF ok2 THEN 3 ELSE 2))

\* urllib.parse.unquote(s): s itself when it holds no "%"; else each maximal
\* run of ASCII characters is unquoted to bytes and decoded as UTF-8, and the
\* non-ASCII characters between the runs are kept.
RECURSIVE Unquote(_)
Unquote(s) ==
    LET high == {i \in 1..Len(s) : s[i] >= 128}
        stop == IF high = {} THEN Len(s) + 1
                ELSE CHOOSE i \in high : \A j \in high : i <= j
    IN  IF ~Contains(s, PCT) THEN s
        ELSE IF stop = 1 THEN << s[1] >> \o Unquote(Tail(s))
        ELSE Utf8Decode(UnquoteToBytes(SubSeq(s, 1, stop - 1))) \o Unquote(Drop(s, stop))

\* ----------------------------------------------------------- literals

\* "cookie"
COOKIE_KEY == << 99, 111, 111, 107, 105, 101 >>

\* "host"
HOST_KEY == << 104, 111, 115, 116 >>

\* "GET"
DEFAULT_METHOD == << 71, 69, 84 >>

\* "/"
DEFAULT_PATH == << 47 >>

\* "://"
SCHEME_SEP == << 58, 47, 47 >>

\* "https", the default of send_request's scheme parameter
HTTPS == << 104, 116, 116, 112, 115 >>

\* "http"
HTTP == << 104, 116, 116, 112 >>

\* ------------------------------------------------------- parsed values

\* A Python str stored as a header value.
Str(s) == [str |-> s]

\* isinstance(v, dict)
IsDict(v) == "raw" \in DOMAIN v

\* {}
EmptyDict == [k \in {} |-> k]

\* A faulty variant of Put: a key that is already there keeps its value.
Put_KeepFirst(d, k, v) ==
    [x \in DOMAIN d \cup {k} |-> IF x \in DOMAIN d THEN d[x] ELSE v]

\* d[k] = v
Put(d, k, v) == [x \in DOMAIN d \cup {k} |-> IF x = k THEN v ELSE d[x]]

\* urllib.parse.unquote(val) if "%" in val else val
Decoded(val) == IF Contains(val, PCT) THEN Unquote(val) ELSE val

\* A faulty variant of CookieEntry: a value decoding leaves unchanged is
\* stored as the plain string.
CookieEntry_PlainString(val) ==
    IF Decoded(val) # val
    THEN [raw |-> val, decoded |-> Decoded(val)]
    ELSE [str |-> val]

\* What a cookie named with "=" is stored as: {"raw", "decoded"} when decoding
\* changes the value, {"raw"} otherwise.
CookieEntry(val) ==
    IF Decoded(val) # val
    THEN [raw |-> val, decoded |-> Decoded(val)]
    ELSE [raw |-> val]

\* A faulty variant of HeaderEntry: every value that holds a "%" gets a
\* decoded field.
HeaderEntry_TagOnPercent(value) ==
    IF Contains(value, PCT)
    THEN [raw |-> value, decoded |-> Unquote(value)]
    ELSE [str |-> value]

\* What a generic header is stored as: {"raw", "decoded"} when decoding
\* changes the value, the plain string otherwise.
HeaderEntry(value) ==
    IF Decoded(value) # value
    THEN [raw |-> value, decoded |-> Decoded(value)]
    ELSE Str(value)

\* A faulty variant of ProcessCookie: an item that trims to "" is skipped.
ProcessCookie_SkipEmpty(cookies, cookie) ==
    IF Strip(cookie) = << >> THEN cookies
    ELSE IF Contains(cookie, EQ)
    THEN Put(cookies,
             Strip(SplitFirst(cookie, EQ)[1]),
             CookieEntry(Strip(SplitFirst(cookie, EQ)[2])))
    ELSE Put(cookies, Strip(cookie), [raw |-> << >>])

\* The body of the loop over cookie_items: one item of the Cookie header.
ProcessCookie(cookies, cookie) ==
    IF Contains(cookie, EQ)
    THEN Put(cookies,
             Strip(SplitFirst(cookie, EQ)[1]),
             CookieEntry(Strip(SplitFirst(cookie, EQ)[2])))
    ELSE Put(cookies, Strip(cookie), [raw |-> << >>])

\* for cookie in cookie_items
RECURSIVE ProcessCookies(_, _)
ProcessCookies(cookies, items) ==
    IF items = << >> THEN cookies
    ELSE ProcessCookies(ProcessCookie(cookies, Head(items)), Tail(items))

\* A faulty variant of LineKey: the key is not lowercased.
LineKey_NoLower(line) == Strip(SplitFirst(line, COLON)[1])

\* key.strip().lower() of a line that holds a colon
LineKey(line) == Lower(Strip(SplitFirst(line, COLON)[1]))

\* value.strip() of a line that holds a colon
LineValue(line) == Strip(SplitFirst(line, COLON)[2])

\* key == "cookie"
IsCookieKey(key) == key = COOKIE_KEY

\* The body of the loop over lines: one line of the header text.
ProcessLine(result, line) ==
    IF ~Contains(line, COLON) THEN result
    ELSE IF IsCookieKey(LineKey(line))
    THEN [result EXCEPT
            !.cookies = ProcessCookies(@, Split(LineValue(line), SEMI))]
    ELSE [result EXCEPT
            !.headers = Put(@, LineKey(line), HeaderEntry(LineValue(line)))]

\* for line in lines
RECURSIVE ProcessLines(_, _)
ProcessLines(result, lines) ==
    IF lines = << >> THEN result
    ELSE ProcessLines(ProcessLine(result, Head(lines)), Tail(lines))

\* self.header_text.strip().splitlines()
LinesOf(text) == SplitLines(Strip(text))

\* A faulty variant of RequestLine: the first line without a colon, wherever
\* it stands.
RequestLine_AnyLine(lines) ==
    IF \E i \in 1..Len(lines) : ~Contains(lines[i], COLON)
    THEN Strip(lines[CHOOSE i \in 1..Len(lines) :
                         /\ ~Contains(lines[i], COLON)
                         /\ \A j \in 1..(i - 1) : Contains(lines[j], COLON)])
    ELSE << >>

\* The request line: the first line, stripped, when it holds no colon.
RequestLine(lines) ==
    IF lines # << >> /\ ~Contains(lines[1], COLON) THEN Strip(lines[1]) ELSE << >>

\* HeaderAnalyzer.parse_headers
parse_headers(text) ==
    ProcessLines([request_line |-> RequestLine(LinesOf(text)),
                  headers |-> EmptyDict,
                  cookies |-> EmptyDict],
                 LinesOf(text))

\* ------------------------------------------------------- send_request

\* A faulty variant of Raw: the decoded value is taken when there is one.
Raw_PreferDecoded(v) ==
    IF "decoded" \in DOMAIN v THEN v.decoded
    ELSE IF "raw" \in DOMAIN v THEN v.raw
    ELSE v.str

\* value["raw"] if isinstance(value, dict) else value
Raw(v) == IF IsDict(v) THEN v.raw ELSE v.str

\* The host send_request takes from the parsed headers: "" when there is no
\* host header.
HostOf(parsed) ==
    IF HOST_KEY \in DOMAIN parsed.headers
    THEN Raw(parsed.headers[HOST_KEY])
    ELSE << >>

\* A faulty variant of HostMissing: only an absent host header counts.
HostMissing_OnlyAbsent(parsed) == HOST_KEY \notin DOMAIN parsed.headers

\* if not host
HostMissing(parsed) == HostOf(parsed) = << >>

\* request_line.split()
Parts(parsed) == SplitWhitespace(parsed.request_line)

\* A faulty variant of Method: the first token is not uppercased.
Method_AsWritten(parsed) ==
    IF Len(SplitWhitespace(parsed.request_line)) >= 2
    THEN SplitWhitespace(parsed.request_line)[1]
    ELSE DEFAULT_METHOD

\* The method: the first token uppercased, GET when there are fewer than two.
Method(parsed) ==
    IF Len(Parts(parsed)) >= 2 THEN Upper(Parts(parsed)[1]) ELSE DEFAULT_METHOD

\* The path: the second token, "/" when there are fewer than two.
Path(parsed) ==
    IF Len(Parts(parsed)) >= 2 THEN Parts(parsed)[2] ELSE DEFAULT_PATH

\* f"{scheme}://{host}{path}"
Url(scheme, parsed) == scheme \o SCHEME_SEP \o HostOf(parsed) \o Path(parsed)

\* The headers dictionary rebuilt for the transport.
FlatHeaders(parsed) == [k \in DOMAIN parsed.headers |-> Raw(parsed.headers[k])]

\* The cookies dictionary rebuilt for the transport.
FlatCookies(parsed) == [k \in DOMAIN parsed.cookies |-> Raw(parsed.cookies[k])]

\* The arguments of requests.request(method, url, headers=..., cookies=...)
RequestArgs(scheme, parsed) ==
    [method |-> Method(parsed),
     url |-> Url(scheme, parsed),
     headers |-> FlatHeaders(parsed),
     cookies |-> FlatCookies(parsed)]

\* return response.status_code
StatusCode(response) == response.status_code

\* ---------------------------------------------------------------- inputs

\* The most lines a header text is made of.
MaxLines == 2

\* The most send_request calls on one analyzer.
MaxCalls == 2

\* "get /p"
REQ_TWO == << 103, 101, 116, 32, 47, 112 >>

\* "GET"
REQ_ONE == << 71, 69, 84 >>

\* "Post  /q%41 x "
REQ_THREE == << 80, 111, 115, 116, 32, 32, 47, 113, 37, 52, 49, 32, 120, 32 >>

\* "Host: h.io"
HOST_PLAIN == << 72, 111, 115, 116, 58, 32, 104, 46, 105, 111 >>

\* "host:"
HOST_EMPTY == << 104, 111, 115, 116, 58 >>

\* " HOST : a%2Fb:c"
HOST_TAGGED == << 32, 72, 79, 83, 84, 32, 58, 32, 97, 37, 50, 70, 98, 58, 99 >>

\* "X-A: 50%"
HDR_PERCENT == << 88, 45, 65, 58, 32, 53, 48, 37 >>

\* "x-a: %41\r"
HDR_ENCODED == << 120, 45, 97, 58, 32, 37, 52, 49, 13 >>

\* "cookie: a=1; b=2%7C3; flag"
COOKIE_MIXED == << 99, 111, 111, 107, 105, 101, 58, 32, 97, 61, 49, 59, 32, 98, 61, 50, 37, 55, 67, 51, 59, 32, 102, 108, 97, 103 >>

\* "Cookie: a=%zz;"
COOKIE_TRAIL == << 67, 111, 111, 107, 105, 101, 58, 32, 97, 61, 37, 122, 122, 59 >>

\* "COOKIE:"
COOKIE_EMPTY == << 67, 79, 79, 75, 73, 69, 58 >>

\* "cookie: A=x=y; a = 2 ;a=3"
COOKIE_DUP == << 99, 111, 111, 107, 105, 101, 58, 32, 65, 61, 120, 61, 121, 59, 32, 97, 32, 61, 32, 50, 32, 59, 97, 61, 51 >>

\* ""
BLANK == << >>

LinePool ==
    { REQ_TWO,
      REQ_ONE,
      REQ_THREE,
      HOST_PLAIN,
      HOST_EMPTY,
      HOST_TAGGED,
      HDR_PERCENT,
      HDR_ENCODED,
      COOKIE_MIXED,
      COOKIE_TRAIL,
      COOKIE_EMPTY,
      COOKIE_DUP,
      BLANK }

\* The header texts: up to MaxLines lines of the pool, joined by "\n".
HeaderTexts ==
    { Join(ls) : ls \in UNION { [1..n -> LinePool] : n \in 0..MaxLines } }

\* The schemes send_request is called with.
Schemes == { HTTPS, HTTP }

\* The status codes the transport answers with.
StatusCodes == { 200, 404 }

\* ----------------------------------------------------------------- state

VARIABLES
    header_text,   \* self.header_text
    pc,            \* "ready", or "in_request" inside requests.request
    ret,           \* how the last call on the analyzer ended
    parsed_data,   \* send_request's local parsed_data, of its last call
    scheme_arg,    \* send_request's scheme argument, of its last call
    request,       \* the arguments of the last requests.request call
    response,      \* how the last finished requests.request call ended
    n_send,        \* send_request calls so far
    n_passed,      \* send_request calls that got past the host check
    n_transport    \* requests.request calls so far

vars ==
    << header_text, pc, ret, parsed_data, scheme_arg, request, response,
       n_send, n_passed, n_transport >>

\* A variable that holds nothing yet.
Undefined == [undefined |-> TRUE]

\* No call has ended yet.
NoReturn == [op |-> "none"]

\* send_request is inside requests.request.
Pending == [op |-> "send_request"]

\* raise ValueError("Host header is missing in the provided headers.")
MissingHost == [op |-> "send_request", raised |-> "ValueError"]

\* HeaderAnalyzer.__init__
Init ==
    /\ header_text \in HeaderTexts
    /\ pc = "ready"
    /\ ret = NoReturn
    /\ parsed_data = Undefined
    /\ scheme_arg = Undefined
    /\ request = Undefined
    /\ response = Undefined
    /\ n_send = 0
    /\ n_passed = 0
    /\ n_transport = 0

\* A call of parse_headers.
ParseHeaders ==
    /\ pc = "ready"
    /\ ret' = [op |-> "parse_headers", value |-> parse_headers(header_text)]
    /\ UNCHANGED << header_text, pc, parsed_data, scheme_arg, request, response,
                    n_send, n_passed, n_transport >>

\* A call of send_request, up to the point where requests.request is
\* entered: it parses the text, raises when the host is missing, and else
\* builds the request and hands it to the transport.
SendRequest(scheme) ==
    /\ pc = "ready"
    /\ n_send < MaxCalls
    /\ n_send' = n_send + 1
    /\ scheme_arg' = scheme
    /\ parsed_data' = parse_headers(header_text)
    /\ IF HostMissing(parsed_data')
       THEN /\ ret' = MissingHost
            /\ UNCHANGED << pc, request, n_passed, n_transport >>
       ELSE /\ n_passed' = n_passed + 1
            /\ request' = RequestArgs(scheme, parsed_data')
            /\ n_transport' = n_transport + 1
            /\ pc' = "in_request"
            /\ ret' = Pending
    /\ UNCHANGED << header_text, response >>

\* requests.request returns a response, and send_request returns its status
\* code.
TransportReturn(status) ==
    /\ pc = "in_request"
    /\ response' = [status_code |-> status]
    /\ ret' = [op |-> "send_request", value |-> StatusCode(response')]
    /\ pc' = "ready"
    /\ UNCHANGED << header_text, parsed_data, scheme_arg, request,
                    n_send, n_passed, n_transport >>

\* A faulty variant of TransportRaise: the failed request is sent again.
TransportRaise_Retry ==
    /\ pc = "in_request"
    /\ response' = [raised |-> "RequestException"]
    /\ n_transport' = n_transport + 1
    /\ UNCHANGED << header_text, pc, ret, parsed_data, scheme_arg, request,
                    n_send, n_passed >>

\* requests.request raises, and the exception leaves send_request.
TransportRaise ==
    /\ pc = "in_request"
    /\ response' = [raised |-> "RequestException"]
    /\ ret' = [op |-> "send_request", raised |-> "RequestException"]
    /\ pc' = "ready"
    /\ UNCHANGED << header_text, parsed_data, scheme_arg, request,
                    n_send, n_passed, n_transport >>

Next ==
    \/ ParseHeaders
    \/ \E scheme \in Schemes : SendRequest(scheme)
    \/ \E status \in StatusCodes : TransportReturn(status)
    \/ TransportRaise

Spec == Init /\ [][Next]_vars

\* ------------------------------------------- vocabulary of the properties

\* parse_headers has just returned; ret.value is what it returned.
ParseDone == ret.op = "parse_headers"

\* The lines of the trimmed header text.
TextLines == SplitLines(Strip(header_text))

\* The text before the first c of s (all of s when it holds no c), and the
\* text after it.
BeforeFirst(s, c) == SubSeq(s, 1, Find(s, c) - 1)

AfterFirst(s, c) == Drop(s, Find(s, c) + 1)

\* The key and the value of a line that holds a colon.
KeyOf(line) == Lower(Strip(BeforeFirst(line, COLON)))

ValueOf(line) == Strip(AfterFirst(line, COLON))

IsCookieLine(line) == Contains(line, COLON) /\ KeyOf(line) = COOKIE_KEY

IsHeaderLine(line) == Contains(line, COLON) /\ KeyOf(line) # COOKIE_KEY

\* The indices of the header lines among the lines L.
HeaderLines(L) == { i \in 1..Len(L) : IsHeaderLine(L[i]) }

\* The cookie items of the lines L, in input order.
RECURSIVE CookieItems(_)
CookieItems(L) ==
    IF L = << >> THEN << >>
    ELSE (IF IsCookieLine(Head(L)) THEN Split(ValueOf(Head(L)), SEMI) ELSE << >>)
         \o CookieItems(Tail(L))

\* The name and the value of a cookie item.
ItemName(item) == Strip(BeforeFirst(item, EQ))

ItemValue(item) == IF Contains(item, EQ) THEN Strip(AfterFirst(item, EQ)) ELSE << >>

\* The indices of the items that are the last of their name.
LastOfName(items) ==
    { j \in 1..Len(items) :
        \A k \in (j + 1)..Len(items) : ItemName(items[k]) # ItemName(items[j]) }

\* The indices of the header lines that are the last of their key.
LastOfKey(L) ==
    { i \in HeaderLines(L) :
        \A k \in HeaderLines(L) : k > i => KeyOf(L[k]) # KeyOf(L[i]) }

\* The entry carries a decoded field.
HasDecoded(e) == "decoded" \in DOMAIN e

\* The raw value of an entry, whichever of its shapes it has.
RawOf(e) == IF "raw" \in DOMAIN e THEN e.raw ELSE e.str

\* The entries parse_headers returned, headers and cookies alike.
Entries(parsed) ==
    { parsed.headers[k] : k \in DOMAIN parsed.headers }
        \cup { parsed.cookies[k] : k \in DOMAIN parsed.cookies }

\* ------------------------------------------------------------ properties

\* C1: every entry parse_headers stores in headers or cookies carries a
\* decoded field if and only if percent-decoding its raw value yields a
\* string different from the raw value; a raw value with a "%" that decodes
\* to itself has no decoded field.
C1_DecodedIffChanged ==
    ParseDone =>
        \A e \in Entries(ret.value) :
            HasDecoded(e) <=> Unquote(RawOf(e)) # RawOf(e)

\* C1 happens: one returned entry holds a "%" and no decoded field, another
\* carries a decoded field.
C1_Witness ==
    /\ ParseDone
    /\ \E e \in Entries(ret.value) : Contains(RawOf(e), PCT) /\ ~HasDecoded(e)
    /\ \E e \in Entries(ret.value) : HasDecoded(e) /\ e.decoded # e.raw

\* C2: request_line is the trimmed first line of the trimmed text when there
\* is a first line and it holds no colon, and "" otherwise; a colon-free
\* line further down never becomes request_line, and a first line with a
\* colon is parsed as a header line like any other.
C2_RequestLine ==
    ParseDone =>
        LET L == TextLines
            first == Split(ValueOf(L[1]), SEMI)
        IN  /\ (L # << >> /\ ~Contains(L[1], COLON))
                  => ret.value.request_line = Strip(L[1])
            /\ (L = << >> \/ Contains(L[1], COLON))
                  => ret.value.request_line = << >>
            /\ (L # << >> /\ IsHeaderLine(L[1]))
                  => KeyOf(L[1]) \in DOMAIN ret.value.headers
            /\ (L # << >> /\ IsCookieLine(L[1]))
                  => \A j \in 1..Len(first) :
                         ItemName(first[j]) \in DOMAIN ret.value.cookies

\* C2 happens: the first line holds a colon, a later line holds text and no
\* colon, and request_line is "".
C2_Witness ==
    /\ ParseDone
    /\ TextLines # << >>
    /\ IsHeaderLine(TextLines[1])
    /\ \E i \in 2..Len(TextLines) :
          ~Contains(TextLines[i], COLON) /\ Strip(TextLines[i]) # << >>
    /\ ret.value.request_line = << >>
    /\ KeyOf(TextLines[1]) \in DOMAIN ret.value.headers

\* C3: a line with a colon is split at its first colon, both parts trimmed
\* and the key lowercased; a line whose key is "cookie" adds entries to
\* cookies only, any other adds exactly the entry of its key to headers and
\* nothing to cookies, and a line with no colon adds nothing.
C3_CookieOrHeader ==
    ParseDone =>
        LET L == TextLines
            items == CookieItems(L)
        IN  /\ DOMAIN ret.value.headers = { KeyOf(L[i]) : i \in HeaderLines(L) }
            /\ COOKIE_KEY \notin DOMAIN ret.value.headers
            /\ DOMAIN ret.value.cookies =
                  { ItemName(items[j]) : j \in 1..Len(items) }
            /\ \A i \in LastOfKey(L) :
                  RawOf(ret.value.headers[KeyOf(L[i])]) = ValueOf(L[i])

\* C3 happens: the text holds a cookie line whose key is not written in
\* lower case and a header line whose value holds a second colon.
C3_Witness ==
    /\ ParseDone
    /\ \E i \in 1..Len(TextLines) :
          /\ IsCookieLine(TextLines[i])
          /\ Strip(BeforeFirst(TextLines[i], COLON)) # COOKIE_KEY
    /\ \E i \in HeaderLines(TextLines) : Contains(ValueOf(TextLines[i]), COLON)
    /\ ret.value.cookies # EmptyDict
    /\ ret.value.headers # EmptyDict

\* C4: last write wins.  Each header key holds the value of the last line
\* of that key, each cookie name the value of the last cookie item of that
\* name, within one cookie line or across several.
C4_LastWriteWins ==
    ParseDone =>
        LET L == TextLines
            items == CookieItems(L)
        IN  /\ \A i \in LastOfKey(L) :
                  RawOf(ret.value.headers[KeyOf(L[i])]) = ValueOf(L[i])
            /\ \A j \in LastOfName(items) :
                  ret.value.cookies[ItemName(items[j])].raw = ItemValue(items[j])

\* C4 happens: a header key occurs on two lines, written in different case
\* and with different values, and headers holds the value of the later line.
C4_Witness ==
    LET L == TextLines
    IN  /\ ParseDone
        /\ \E i, k \in HeaderLines(L) :
              /\ i < k
              /\ KeyOf(L[i]) = KeyOf(L[k])
              /\ BeforeFirst(L[i], COLON) # BeforeFirst(L[k], COLON)
              /\ ValueOf(L[i]) # ValueOf(L[k])
              /\ RawOf(ret.value.headers[KeyOf(L[k])]) = ValueOf(L[k])

\* C5 as claimed: a name=value cookie whose value percent-decoding leaves
\* unchanged is stored as the plain string, the shape a generic header gets.
C5_PlainString ==
    ParseDone =>
        LET items == CookieItems(TextLines)
        IN  \A j \in LastOfName(items) :
                (/\ Contains(items[j], EQ)
                 /\ Unquote(ItemValue(items[j])) = ItemValue(items[j]))
                => ret.value.cookies[ItemName(items[j])] = Str(ItemValue(items[j]))

\* C5 amended: a name=value cookie whose value percent-decoding leaves
\* unchanged is stored as the record {raw} without a decoded field, not as
\* a plain string; the record {raw, decoded} is stored exactly when decoding
\* changes the value.
C5_RawRecord ==
    ParseDone =>
        LET items == CookieItems(TextLines)
        IN  \A j \in LastOfName(items) :
                Contains(items[j], EQ) =>
                    ret.value.cookies[ItemName(items[j])] =
                        IF Unquote(ItemValue(items[j])) = ItemValue(items[j])
                        THEN [raw |-> ItemValue(items[j])]
                        ELSE [raw |-> ItemValue(items[j]),
                              decoded |-> Unquote(ItemValue(items[j]))]

\* C5 happens: a name=value cookie with a value decoding leaves unchanged was
\* stored, and one with a value decoding changes.
C5_Witness ==
    LET items == CookieItems(TextLines)
    IN  /\ ParseDone
        /\ \E j \in LastOfName(items) :
              /\ Contains(items[j], EQ)
              /\ ItemValue(items[j]) # << >>
              /\ Unquote(ItemValue(items[j])) = ItemValue(items[j])
        /\ \E j \in LastOfName(items) :
              /\ Contains(items[j], EQ)
              /\ Unquote(ItemValue(items[j])) # ItemValue(items[j])

\* C6: a cookie item with no "=" is stored under its trimmed text with the
\* raw value "" and no decoded field, also when it trims to "" (a trailing
\* ";", or a cookie header with an empty value); the item counts when no
\* later item of the same name overwrites it.
C6_FlagCookie ==
    ParseDone =>
        LET items == CookieItems(TextLines)
        IN  \A j \in LastOfName(items) :
                ~Contains(items[j], EQ) =>
                    /\ Strip(items[j]) \in DOMAIN ret.value.cookies
                    /\ ret.value.cookies[Strip(items[j])] = [raw |-> << >>]

\* C6 happens: a cookie line ending in ";" gave a cookie with a name and a
\* value and the flag cookie named "".
C6_Witness ==
    /\ ParseDone
    /\ \E i \in 1..Len(TextLines) :
          /\ IsCookieLine(TextLines[i])
          /\ ValueOf(TextLines[i]) # << >>
          /\ ValueOf(TextLines[i])[Len(ValueOf(TextLines[i]))] = SEMI
    /\ << >> \in DOMAIN ret.value.cookies
    /\ ret.value.cookies[<< >>] = [raw |-> << >>]
    /\ \E n \in DOMAIN ret.value.cookies :
          n # << >> /\ ret.value.cookies[n].raw # << >>

\* send_request has been called, and parsed_data holds neither a host
\* entry with a raw value other than "".
HostAbsentOrEmpty ==
    /\ n_send > 0
    /\ \/ HOST_KEY \notin DOMAIN parsed_data.headers
       \/ RawOf(parsed_data.headers[HOST_KEY]) = << >>

\* C7: when the parsed headers hold no host entry, or one whose raw value is
\* "", send_request raises the missing-host error and the transport is not
\* invoked: no call got past the host check, none is inside the transport,
\* and every send_request call ended with the error.
C7_MissingHostNoTransport ==
    HostAbsentOrEmpty =>
        /\ n_transport = 0
        /\ n_passed = 0
        /\ pc = "ready"
        /\ request = Undefined
        /\ ret.op = "send_request" => ret = MissingHost

\* C7 happens: send_request was called on a text whose host header has an
\* empty value, and raised.
C7_Witness ==
    /\ HostAbsentOrEmpty
    /\ HOST_KEY \in DOMAIN parsed_data.headers
    /\ ret = MissingHost
    /\ n_send = 1

\* C8: the headers and cookies handed to the transport are string-to-string
\* mappings with the key sets of the parsed headers and cookies, host
\* included, each value the raw value of its entry; a decoded value is never
\* handed over.
C8_FlattenedRaw ==
    n_transport > 0 =>
        /\ DOMAIN request.headers = DOMAIN parsed_data.headers
        /\ DOMAIN request.cookies = DOMAIN parsed_data.cookies
        /\ HOST_KEY \in DOMAIN request.headers
        /\ \A k \in DOMAIN parsed_data.headers :
              request.headers[k] = RawOf(parsed_data.headers[k])
        /\ \A k \in DOMAIN parsed_data.cookies :
              request.cookies[k] = RawOf(parsed_data.cookies[k])

\* C8 happens: the transport was handed a header and a cookie whose parsed
\* entries carry a decoded field.
C8_Witness ==
    /\ n_transport > 0
    /\ \E k \in DOMAIN parsed_data.headers : HasDecoded(parsed_data.headers[k])
    /\ \E k \in DOMAIN parsed_data.cookies : HasDecoded(parsed_data.cookies[k])

\* C9: with a host, the request line is split on whitespace; two or more
\* tokens give the first token uppercased as method and the second as path,
\* fewer give GET and "/"; the URL is scheme, "://", raw host and path
\* concatenated, nothing re-encoded.
C9_MethodPathUrl ==
    n_transport > 0 =>
        LET tokens == SplitWhitespace(parsed_data.request_line)
            host == RawOf(parsed_data.headers[HOST_KEY])
        IN  /\ Len(tokens) >= 2 =>
                  /\ request.method = Upper(tokens[1])
                  /\ request.url = scheme_arg \o SCHEME_SEP \o host \o tokens[2]
            /\ Len(tokens) < 2 =>
                  /\ request.method = DEFAULT_METHOD
                  /\ request.url = scheme_arg \o SCHEME_SEP \o host \o DEFAULT_PATH

\* C9 happens: a request line of three tokens, its method not in upper case
\* and its path holding a percent escape, went to the transport.
C9_Witness ==
    /\ n_transport > 0
    /\ Len(SplitWhitespace(parsed_data.request_line)) = 3
    /\ request.method # SplitWhitespace(parsed_data.request_line)[1]
    /\ Contains(SplitWhitespace(parsed_data.request_line)[2], PCT)
    /\ HasDecoded(parsed_data.headers[HOST_KEY])

\* C10: a send_request call past the host check invokes the transport once.
\* From inside the transport the call ends in one step, without another
\* transport call: with the status code of the response when the transport
\* returned one, with the transport's exception when it raised.
C10_TransportOnce ==
    [][pc = "in_request" =>
          /\ pc' = "ready"
          /\ n_transport' = n_transport
          /\ n_transport = n_passed
          /\ \/ /\ "status_code" \in DOMAIN response'
                /\ ret' = [op |-> "send_request", value |-> response'.status_code]
             \/ /\ "raised" \in DOMAIN response'
                /\ ret' = [op |-> "send_request", raised |-> response'.raised]]_vars

\* C10 happens: the first send_request call past the host check ended with
\* the transport's exception, after one transport call.
C10_Witness ==
    /\ n_passed = 1
    /\ n_transport = 1
    /\ pc = "ready"
    /\ ret = [op |-> "send_request", raised |-> "RequestException"]

====
